---- MODULE Spec2Model ----
(***************************************************************************)
(* Model of the DAG executor of acr-builder (builder/builder.go):          *)
(* Builder.RunTask, Builder.processVertex and Builder.runStep.             *)
(*                                                                         *)
(* RunTask is the main thread: pre-execution, one goroutine per child of   *)
(* the root, the completion barrier (a select per completion channel, in   *)
(* the iteration order of the map task.Dag.Nodes), the digest pass, return.*)
(* Every `go b.processVertex(...)` is a worker with its own position.      *)
(***************************************************************************)
EXTENDS Integers, Sequences, FiniteSets, TLC

Root == "root"

\* Most workers that may exist at once for one DAG edge (parent, child).
MaxInst == 2

\* ---------------------------------------------------------------- tasks
\* A loaded task: its steps in declaration order, each step's parents in
\* the DAG (Root for a step that depends on the root only), and the steps
\* with IgnoreErrors, with Pull (cmd steps) and of kind build.
ChainTask ==
    [order |-> <<"a", "b", "c">>,
     when |-> [s \in {"a", "b", "c"} |->
                 IF s = "a" THEN {Root} ELSE IF s = "b" THEN {"a"} ELSE {"b"}],
     ignore |-> {}, pull |-> {"a"}, build |-> {"c"}]

DiamondTask ==
    [order |-> <<"a", "b", "c", "d">>,
     when |-> [s \in {"a", "b", "c", "d"} |->
                 IF s = "a" THEN {Root}
                 ELSE IF s \in {"b", "c"} THEN {"a"} ELSE {"b", "c"}],
     ignore |-> {"b"}, pull |-> {}, build |-> {}]

JoinTask ==
    [order |-> <<"a", "b", "c", "d">>,
     when |-> [s \in {"a", "b", "c", "d"} |->
                 IF s \in {"a", "b"} THEN {Root}
                 ELSE IF s = "c" THEN {"a", "b"} ELSE {"c"}],
     ignore |-> {}, pull |-> {}, build |-> {}]

IgnoreTask ==
    [order |-> <<"a", "b">>,
     when |-> [s \in {"a", "b"} |-> IF s = "a" THEN {Root} ELSE {"a"}],
     ignore |-> {"a"}, pull |-> {}, build |-> {}]

PairTask ==
    [order |-> <<"a", "b">>,
     when |-> [s \in {"a", "b"} |-> {Root}],
     ignore |-> {"b"}, pull |-> {"b"}, build |-> {}]

Tasks == {ChainTask, DiamondTask, JoinTask, IgnoreTask, PairTask}

Range(q) == {q[i] : i \in 1..Len(q)}

StepsOf(t) == Range(t.order)

Reverse(q) == [i \in 1..Len(q) |-> q[Len(q) + 1 - i]]

\* Orders in which the Go map task.Dag.Nodes may be iterated (any order is
\* possible; the declaration order and its reverse are explored).
Orders(t) == {t.order, Reverse(t.order)}

\* ---------------------------------------------------------------- state
VARIABLES
    task,        \* the task handed to RunTask
    chanCap,     \* capacity of every Step.CompletedChan (0: unbuffered)
    completedChans, \* the channels in the iteration order of task.Dag.Nodes
    mpc,         \* position of RunTask: "pre", "barrier", "digest", "done"
    bidx,        \* index into completedChans of the barrier loop
    ret,         \* what RunTask returned
    cancelled,   \* the root context is done
    degree,      \* Node.degree of every step
    status,      \* Step.StepStatus
    startTime,   \* Step.StartTime (0: the zero time)
    endTime,     \* Step.EndTime (0: the zero time)
    deps,        \* steps with a non-empty ImageDependencies
    now,         \* the clock read by time.Now(): it ticks when a step ends
    workers,     \* the processVertex goroutines that have not returned
    chanBuf,     \* number of values buffered in each CompletedChan
    recvd,       \* per step: receives of the barrier from its CompletedChan
    runs,        \* per step: number of calls of runStep
    failed,      \* steps whose runStep returned an error at least once
    interrupted, \* steps whose runStep returned an error after the cancel
    retTime      \* the clock when RunTask returned (0: it has not returned)

dagVars == <<task, chanCap, completedChans, mpc, bidx, ret, cancelled, degree,
             status, startTime, endTime, deps, now, workers, chanBuf, recvd,
             runs, failed, interrupted, retTime>>

\* ------------------------------------------------------- util functions
\* The state of a caller of util.PrefixRegistryToImageName and
\* util.PrefixTags. Strings are sequences of one-character strings.
VARIABLES
    registry,    \* the registry argument
    img,         \* the image argument
    cmd,         \* the build command argument
    results,     \* PrefixRegistryToImageName applied once, twice to img
    tagged       \* <<>> or the one pair PrefixTags returned for cmd

utilVars == <<registry, img, cmd, results, tagged>>

UtilIdle ==
    /\ registry = <<>>
    /\ img = <<>>
    /\ cmd = <<>>
    /\ results = <<>>
    /\ tagged = <<>>

\* ------------------------------------------------------- one runStep
\* The state of one call of Builder.runStep by processVertex, with the clock
\* and the process manager's retries.
VARIABLES
    step,        \* the graph.Step that is run
    rpc,         \* position of the worker in runStep / processVertex
    clock,       \* seconds since runStep was called
    wake,        \* when the current sleep (StartDelay, retry delay) ends
    deadline,    \* deadline of the context of the current engine call
    ctxDone,     \* the root context was cancelled
    stepStatus,  \* step.StepStatus
    runErr,      \* what runStep returned ("none": it has not returned)
    posted,      \* the error processVertex sent to errorChan ("none": none)
    call,        \* the engine call runStep made, with its arguments
    attempt,     \* invocations made by the current RunWithRetries
    outs,        \* their outputs, in order
    rounds,      \* RunWithRetries calls of the repeat series that succeeded
    invocations, \* subprocess invocations of the engine call
    cancelTime,  \* the clock when the root context was cancelled
    cancelledInSleep, \* the cancel came during the StartDelay sleep
    expired      \* step.Timeout seconds passed while runStep was running

stepVars == <<step, rpc, clock, wake, deadline, ctxDone, stepStatus, runErr,
              posted, call, attempt, outs, rounds, invocations, cancelTime,
              cancelledInSleep, expired>>

NoCall == [fn |-> "none"]

\* The worker's state when runStep is called (and when it never is).
StepEntry ==
    /\ rpc = "start"
    /\ clock = 0
    /\ wake = 0
    /\ deadline = 0
    /\ ctxDone = FALSE
    /\ stepStatus = "Skipped"
    /\ runErr = "none"
    /\ posted = "none"
    /\ call = NoCall
    /\ attempt = 0
    /\ outs = <<>>
    /\ rounds = 0
    /\ invocations = 0
    /\ cancelTime = 0
    /\ cancelledInSleep = FALSE
    /\ expired = FALSE

StepIdle == step = <<>> /\ StepEntry

\* ---------------------------------------------------- process lifetime
\* The state of a process that calls Builder.RunTask and Builder.CleanTask
\* one after the other, with the container engine's networks and volumes.
VARIABLES
    goos,        \* runtime.GOOS
    ltask,       \* the task of the current call
    lpc,         \* position of the caller in RunTask / CleanTask
    lidx,        \* index of the current loop
    dpos,        \* digest pass: index of the next lookup of the step
    calls,       \* RunTask calls made so far
    netExists,   \* networks that exist in the engine
    volExists,   \* volumes that exist in the engine
    createdNets, \* networks the current RunTask call created
    createdVols, \* volumes the current RunTask call created
    buildkitInits, \* buildkitd initializations run by this process
    lret,        \* what the current RunTask call returned
    lstatus,     \* StepStatus of the task's steps
    ldeps,       \* ImageDependencies of the task's steps
    lookups,     \* digest lookups made by the current call, in order
    lookupFailed, \* a digest lookup returned an error
    reported,    \* the dependency report was logged
    cleanPending, \* CleanTask: nodes of the Dag not visited yet
    rmAttempts,  \* CleanTask: steps whose container removal was attempted
    netDelAttempts, \* CleanTask: networks whose deletion was attempted
    failedOps,   \* CleanTask: removals and deletions that failed
    stopped,     \* procManager.Stop() was called
    preDone      \* the pre-execution operations of the current call that
                 \* returned, in order, each with its outcome

lifeVars == <<goos, ltask, lpc, lidx, dpos, calls, netExists, volExists,
              createdNets, createdVols, buildkitInits, lret, lstatus, ldeps,
              lookups, lookupFailed, reported, cleanPending, rmAttempts,
              netDelAttempts, failedOps, stopped, preDone>>

\* What a call of RunTask starts from (and a process that made no call).
CallEntry ==
    /\ lidx = 1
    /\ dpos = 1
    /\ createdNets = {}
    /\ createdVols = {}
    /\ lret = "none"
    /\ lstatus = <<>>
    /\ ldeps = <<>>
    /\ lookups = <<>>
    /\ lookupFailed = FALSE
    /\ reported = FALSE
    /\ cleanPending = {}
    /\ rmAttempts = {}
    /\ netDelAttempts = {}
    /\ failedOps = {}
    /\ stopped = FALSE
    /\ preDone = <<>>

\* A process that has called nothing yet.
ProcessStart ==
    /\ ltask = <<>>
    /\ lpc = "idle"
    /\ calls = 0
    /\ netExists = {}
    /\ volExists = {}
    /\ buildkitInits = 0
    /\ CallEntry

LifeIdle == goos = "linux" /\ ProcessStart

\* ------------------------------------------------------- task loader
\* The state of a caller that loads a task (graph.UnmarshalTaskFromFile,
\* as TestDagCreation_ValidFile does) and looks at task.Dag.
VARIABLES
    doc,         \* the steps of the task document, in declaration order
    loaded,      \* the load was attempted
    nodes,       \* task.Dag.Nodes: the value of every node, by name
    edges,       \* the edges <<from, to>> of task.Dag
    loadErr      \* the error of the load ("none": no error)

loadVars == <<doc, loaded, nodes, edges, loadErr>>

\* No DAG: before the load, and after a load that failed.
NoDag ==
    /\ nodes = <<>>
    /\ edges = {}

LoadIdle ==
    /\ doc = <<>>
    /\ loaded = FALSE
    /\ NoDag
    /\ loadErr = "none"

\* The variables the DAG executor does not touch.
otherVars == <<utilVars, stepVars, lifeVars, loadVars>>

OtherIdle == UtilIdle /\ StepIdle /\ LifeIdle /\ LoadIdle

vars == <<dagVars, otherVars>>

Steps == StepsOf(task)

\* Node.Children(): the forward adjacency of a node.
Children(n) == {s \in Steps : n \in task.when[s]}

Err(kind, id) == [kind |-> kind, id |-> id]

NoReturn == Err("none", "")

\* ---------------------------------------------------------------- Init
\* The state RunTask finds: a loaded task whose steps are Skipped, whose
\* nodes have their in-degree as degree (graph package, data model of the
\* specification) and whose completion channels are empty. The capacity of
\* the completion channels is set where the steps are created: both an
\* unbuffered and a one-slot channel are explored.
DagInit ==
    /\ task \in Tasks
    /\ chanCap \in {0, 1}
    /\ completedChans \in Orders(task)
    /\ mpc = "pre"
    /\ bidx = 1
    /\ ret = NoReturn
    /\ cancelled = FALSE
    /\ degree = [s \in StepsOf(task) |-> Cardinality(task.when[s])]
    /\ status = [s \in StepsOf(task) |-> "Skipped"]
    /\ startTime = [s \in StepsOf(task) |-> 0]
    /\ endTime = [s \in StepsOf(task) |-> 0]
    /\ deps = {}
    /\ now = 1
    /\ workers = {}
    /\ chanBuf = [s \in StepsOf(task) |-> 0]
    /\ recvd = [s \in StepsOf(task) |-> 0]
    /\ runs = [s \in StepsOf(task) |-> 0]
    /\ failed = {}
    /\ interrupted = {}
    /\ retTime = 0

Init == DagInit /\ OtherIdle

\* The executor at rest, for the specifications of the other operations.
DagIdle ==
    /\ DagInit
    /\ task = PairTask
    /\ chanCap = 0
    /\ completedChans = task.order

\* ---------------------------------------------------------------- workers
\* The goroutines started by `go b.processVertex(ctx, task, p, c, errorChan)`
\* for every c in cs: each gets the first free instance number of its edge.
FreeInst(W, p, c) ==
    {n \in 1..MaxInst : ~\E w \in W : w.parent = p /\ w.child = c /\ w.n = n}

NewWorker(W, p, c) ==
    IF FreeInst(W, p, c) = {} THEN {}
    ELSE {[parent |-> p, child |-> c,
           n |-> CHOOSE n \in FreeInst(W, p, c) :
                   \A m \in FreeInst(W, p, c) : n <= m,
           pc |-> "remove", err |-> FALSE]}

Spawn(W, p, cs) == W \cup UNION {NewWorker(W, p, c) : c \in cs}

At(w, pc) == [w EXCEPT !.pc = pc]

Move(w, v) == (workers \ {w}) \cup {v}

\* ---------------------------------------------------------------- DAG
\* Dag.RemoveEdge(parent, child): the child's degree goes down by one, at
\* every call (the operation is not idempotent).
RemoveEdgeDegree(d) == d - 1

\* processVertex: `if degree == 0` decides whether this worker runs the step.
ReadyToRun(d) == d = 0

\* processVertex: the three branches after runStep returned err for a step
\* with IgnoreErrors = ign.
TerminalStatus(err, ign) == IF err /\ ~ign THEN "Failed" ELSE "Successful"

\* The status map after those branches wrote step s.
StatusAfterNoFailedWrite(st, s, err, ign) ==
    IF err /\ ~ign THEN st ELSE [st EXCEPT ![s] = "Successful"]

StatusAfter(st, s, err, ign) == [st EXCEPT ![s] = TerminalStatus(err, ign)]

SpawnsChildrenOnSuccessOnly(err, ign) == ~err

SpawnsChildren(err, ign) == ~err \/ ign

PostsError(err, ign) == err /\ ~ign

\* ---------------------------------------------------------------- RunTask
\* Pre-execution: networks, engine configuration, registry logins, the
\* buildkitd container and the volumes. Any of them but the buildkitd
\* initialization returns its error from RunTask.
PreExec ==
    /\ mpc = "pre"
    /\ \E ok \in BOOLEAN :
         IF ok THEN /\ mpc' = "spawn"
                    /\ ret' = ret
                    /\ retTime' = retTime
               ELSE /\ mpc' = "done"
                    /\ ret' = Err("pre", "")
                    /\ retTime' = now
    /\ UNCHANGED <<task, chanCap, completedChans, bidx, cancelled, degree,
                   status, startTime, endTime, deps, now, workers, chanBuf,
                   recvd, runs, failed, interrupted>>
    /\ UNCHANGED otherVars

\* for _, child := range task.Dag.Root.Children() { go b.processVertex(...) }
SpawnRoot ==
    /\ mpc = "spawn"
    /\ workers' = Spawn(workers, Root, Children(Root))
    /\ mpc' = "barrier"
    /\ UNCHANGED <<task, chanCap, completedChans, bidx, ret, cancelled,
                   degree, status, startTime, endTime, deps, now, chanBuf,
                   recvd, runs, failed, interrupted, retTime>>
    /\ UNCHANGED otherVars

\* The barrier's position after one more completion channel was received.
AfterRecv(i) == IF i + 1 > Len(completedChans) THEN "digest" ELSE "barrier"

\* select: case <-ctx.Done(): return ctx.Err()
BarrierCtx ==
    /\ mpc = "barrier"
    /\ cancelled
    /\ mpc' = "done"
    /\ ret' = Err("ctx", "")
    /\ retTime' = now
    /\ UNCHANGED <<task, chanCap, completedChans, bidx, cancelled, degree,
                   status, startTime, endTime, deps, now, workers, chanBuf,
                   recvd, runs, failed, interrupted>>
    /\ UNCHANGED otherVars

\* select: case <-ch: continue, a value buffered in the channel.
BarrierRecvBuffered ==
    /\ mpc = "barrier"
    /\ LET ch == completedChans[bidx] IN
         /\ chanBuf[ch] > 0
         /\ chanBuf' = [chanBuf EXCEPT ![ch] = @ - 1]
         /\ recvd' = [recvd EXCEPT ![ch] = @ + 1]
    /\ mpc' = AfterRecv(bidx)
    /\ bidx' = bidx + 1
    /\ UNCHANGED <<task, chanCap, completedChans, ret, cancelled, degree,
                   status, startTime, endTime, deps, now, workers, runs,
                   failed, interrupted, retTime>>
    /\ UNCHANGED otherVars

\* select: case <-ch: continue, taken from a worker blocked in
\* `step.CompletedChan <- true` (the last statement of processVertex).
BarrierRecvSender ==
    /\ mpc = "barrier"
    /\ \E w \in workers :
         /\ w.pc = "signal"
         /\ w.child = completedChans[bidx]
         /\ chanBuf[w.child] = 0
         /\ workers' = workers \ {w}
         /\ recvd' = [recvd EXCEPT ![w.child] = @ + 1]
    /\ mpc' = AfterRecv(bidx)
    /\ bidx' = bidx + 1
    /\ UNCHANGED <<task, chanCap, completedChans, ret, cancelled, degree,
                   status, startTime, endTime, deps, now, chanBuf, runs,
                   failed, interrupted, retTime>>
    /\ UNCHANGED otherVars

\* select: case err := <-errorChan: return err, from a worker blocked in
\* `errorChan <- errors.Wrapf(err, "failed to run step ID: %s", step.ID)`.
BarrierErr ==
    /\ mpc = "barrier"
    /\ \E w \in workers :
         /\ w.pc = "posterr"
         /\ workers' = Move(w, At(w, "signal"))
         /\ ret' = Err("step", w.child)
    /\ mpc' = "done"
    /\ retTime' = now
    /\ UNCHANGED <<task, chanCap, completedChans, bidx, cancelled, degree,
                   status, startTime, endTime, deps, now, chanBuf, recvd,
                   runs, failed, interrupted>>
    /\ UNCHANGED otherVars

\* The digest pass over task.Steps: a lookup error of getPopulateDigests is
\* returned; lookups run under a context derived from the root context.
DigestPass ==
    /\ mpc = "digest"
    /\ \E ok \in BOOLEAN :
         /\ ok => ~(cancelled /\ deps # {})
         /\ ~ok => deps # {}
         /\ ret' = IF ok THEN Err("nil", "") ELSE Err("digest", "")
    /\ mpc' = "done"
    /\ retTime' = now
    /\ UNCHANGED <<task, chanCap, completedChans, bidx, cancelled, degree,
                   status, startTime, endTime, deps, now, workers, chanBuf,
                   recvd, runs, failed, interrupted>>
    /\ UNCHANGED otherVars

\* The caller cancels the root context while RunTask is running.
Cancel ==
    /\ mpc # "done"
    /\ ~cancelled
    /\ cancelled' = TRUE
    /\ UNCHANGED <<task, chanCap, completedChans, mpc, bidx, ret, degree,
                   status, startTime, endTime, deps, now, workers, chanBuf,
                   recvd, runs, failed, interrupted, retTime>>
    /\ UNCHANGED otherVars

\* ---------------------------------------------------------- processVertex
\* err := task.Dag.RemoveEdge(parent.Name, child.Name)
RemoveEdge(w) ==
    /\ w.pc = "remove"
    /\ degree' = [degree EXCEPT ![w.child] = RemoveEdgeDegree(@)]
    /\ workers' = Move(w, At(w, "degree"))
    /\ UNCHANGED <<task, chanCap, completedChans, mpc, bidx, ret, cancelled,
                   status, startTime, endTime, deps, now, chanBuf, recvd,
                   runs, failed, interrupted, retTime>>
    /\ UNCHANGED otherVars

\* degree := child.GetDegree(); if degree == 0 { ... }
GetDegree(w) ==
    /\ w.pc = "degree"
    /\ workers' = IF ReadyToRun(degree[w.child])
                  THEN Move(w, At(w, "run"))
                  ELSE workers \ {w}
    /\ UNCHANGED <<task, chanCap, completedChans, mpc, bidx, ret, cancelled,
                   degree, status, startTime, endTime, deps, now, chanBuf,
                   recvd, runs, failed, interrupted, retTime>>
    /\ UNCHANGED otherVars

\* runStep up to `step.StartTime = time.Now()`: the start delay, the explicit
\* pull of a cmd step with Pull (its error is returned before the status is
\* touched; under a cancelled context the pull fails), then
\* StepStatus = InProgress and StartTime.
RunStepBegin(w) ==
    /\ w.pc = "run"
    /\ runs' = [runs EXCEPT ![w.child] = @ + 1]
    /\ \E pullFails \in BOOLEAN :
         /\ pullFails => w.child \in task.pull
         /\ (cancelled /\ w.child \in task.pull) => pullFails
         /\ IF pullFails
            THEN /\ workers' = Move(w, [w EXCEPT !.pc = "after", !.err = TRUE])
                 /\ failed' = failed \cup {w.child}
                 /\ interrupted' = IF cancelled THEN interrupted \cup {w.child}
                                    ELSE interrupted
                 /\ UNCHANGED <<status, startTime>>
            ELSE /\ workers' = Move(w, At(w, "exec"))
                 /\ status' = [status EXCEPT ![w.child] = "InProgress"]
                 /\ startTime' = [startTime EXCEPT ![w.child] = now]
                 /\ UNCHANGED <<failed, interrupted>>
    /\ UNCHANGED <<task, chanCap, completedChans, mpc, bidx, ret, cancelled,
                   degree, endTime, deps, now, chanBuf, recvd, retTime>>
    /\ UNCHANGED otherVars

\* The rest of runStep: a build step scans its dependencies (and sets
\* ImageDependencies) before the engine runs; the deferred function sets
\* EndTime when runStep returns, with or without an error. Every engine
\* call runs under a context derived from the root context: once that is
\* cancelled runStep returns an error.
RunStepEnd(w) ==
    /\ w.pc = "exec"
    /\ \E scanned \in BOOLEAN, ok \in BOOLEAN :
         /\ ok => ~cancelled
         /\ scanned <=> (w.child \in task.build /\ (ok \/ scanned))
         /\ deps' = IF scanned THEN deps \cup {w.child} ELSE deps
         /\ workers' = Move(w, [w EXCEPT !.pc = "after", !.err = ~ok])
         /\ failed' = IF ok THEN failed ELSE failed \cup {w.child}
         /\ interrupted' = IF ~ok /\ cancelled THEN interrupted \cup {w.child}
                            ELSE interrupted
    /\ now' = now + 1
    /\ endTime' = [endTime EXCEPT ![w.child] = now + 1]
    /\ UNCHANGED <<task, chanCap, completedChans, mpc, bidx, ret, cancelled,
                   degree, status, startTime, chanBuf, recvd, runs, retTime>>
    /\ UNCHANGED otherVars

\* processVertex after runStep returned: the terminal status, then either a
\* worker per child or the error for errorChan.
AfterStep(w) ==
    /\ w.pc = "after"
    /\ LET ign == w.child \in task.ignore
           v == At(w, IF PostsError(w.err, ign) THEN "posterr" ELSE "signal")
       IN /\ status' = StatusAfter(status, w.child, w.err, ign)
          /\ workers' = IF SpawnsChildren(w.err, ign)
                        THEN Spawn(Move(w, v), w.child, Children(w.child))
                        ELSE Move(w, v)
    /\ UNCHANGED <<task, chanCap, completedChans, mpc, bidx, ret, cancelled,
                   degree, startTime, endTime, deps, now, chanBuf, recvd,
                   runs, failed, interrupted, retTime>>
    /\ UNCHANGED otherVars

\* step.CompletedChan <- true into a channel with room in its buffer.
SendSignal(w) ==
    /\ w.pc = "signal"
    /\ chanBuf[w.child] < chanCap
    /\ chanBuf' = [chanBuf EXCEPT ![w.child] = @ + 1]
    /\ workers' = workers \ {w}
    /\ UNCHANGED <<task, chanCap, completedChans, mpc, bidx, ret, cancelled,
                   degree, status, startTime, endTime, deps, now, recvd, runs,
                   failed, interrupted, retTime>>
    /\ UNCHANGED otherVars

Worker ==
    \/ \E w \in workers : RemoveEdge(w)
    \/ \E w \in workers : GetDegree(w)
    \/ \E w \in workers : RunStepBegin(w)
    \/ \E w \in workers : RunStepEnd(w)
    \/ \E w \in workers : AfterStep(w)
    \/ \E w \in workers : SendSignal(w)

Barrier == BarrierCtx \/ BarrierRecvBuffered \/ BarrierRecvSender \/ BarrierErr

Next == PreExec \/ SpawnRoot \/ Barrier \/ DigestPass \/ Cancel \/ Worker

Spec == Init /\ [][Next]_vars

\* ---------------------------------------------------------------- claims
Terminal == {"Successful", "Failed"}

Returned == mpc = "done"

\* A worker between runStep's write of InProgress and processVertex's write
\* of the terminal status.
InRunStep(w) == w.pc \in {"exec", "after"}

\* Every step of RunTask and of the workers, the caller's cancel excepted.
Progress == PreExec \/ SpawnRoot \/ Barrier \/ DigestPass \/ Worker

\* RunTask has returned and no worker can take another step.
Quiescent == Returned /\ ~ENABLED Worker

\* C1: for every edge P -> C, once C has begun execution P has a terminal
\* status and an EndTime, and C.StartTime >= P.EndTime.
C1_ChildStartsAfterParentEnds ==
    \A c \in Steps : \A p \in task.when[c] \ {Root} :
        startTime[c] > 0 =>
            /\ status[p] \in Terminal
            /\ endTime[p] > 0
            /\ startTime[c] >= endTime[p]

\* C2: if RunTask returned nil, every step was executed, none failed without
\* IgnoreErrors and every step has status Successful.
C2_NilMeansAllSuccessful ==
    (Returned /\ ret.kind = "nil") =>
        \A s \in Steps :
            /\ status[s] = "Successful"
            /\ runs[s] >= 1
            /\ s \in failed => s \in task.ignore

C4_AllSucceedReturnsNil ==
    (/\ Returned
     /\ ~cancelled
     /\ failed = {}
     /\ \A s \in Steps : runs[s] >= 1
     /\ ret.kind # "digest") =>
        /\ ret.kind = "nil"
        /\ \A s \in Steps : status[s] = "Successful"

\* C5: when a step failed without IgnoreErrors (and the context was never
\* cancelled), a RunTask that has returned returned the error of a step that
\* failed, wrapped with that step's ID.
C5_FailureReturnsStepError ==
    (Returned /\ ~cancelled /\ (failed \ task.ignore) # {}) =>
        /\ ret.kind = "step"
        /\ ret.id \in failed \ task.ignore

\* C6: a worker whose step failed with IgnoreErrors sets the status
\* Successful, starts a worker for each child and does not go on to post an
\* error; in the task a (ignoreErrors) -> b, when a failed, b did not and the
\* context was not cancelled, RunTask returns nil and b was executed.
C6_IgnoredSetsSuccessful ==
    \A w \in workers :
        (/\ w.pc = "after"
         /\ w.err
         /\ w.child \in task.ignore
         /\ w \notin workers') =>
            /\ status'[w.child] = "Successful"
            /\ At(w, "signal") \in workers'
            /\ \A c \in Children(w.child) :
                 \E v \in workers' \ workers :
                     v.parent = w.child /\ v.child = c /\ v.pc = "remove"

C6_IgnoreScenario ==
    (/\ task = IgnoreTask
     /\ Returned
     /\ ~cancelled
     /\ "a" \in failed
     /\ "b" \notin failed) =>
        /\ ret.kind = "nil"
        /\ runs["b"] = 1
        /\ status["b"] = "Successful"

\* C6: both parts, in every step and every state of every run.
C6_IgnoreErrors == [][C6_IgnoredSetsSuccessful]_vars /\ []C6_IgnoreScenario

\* C6 (witness): in a (ignoreErrors) -> b, a failed and was set Successful,
\* b was executed and RunTask returned nil.
C6_Witness ==
    /\ task = IgnoreTask
    /\ Returned
    /\ "a" \in failed
    /\ status["a"] = "Successful"
    /\ runs["b"] = 1
    /\ ret.kind = "nil"

\* C7: once RunTask has returned and every worker has come to rest (the
\* context never cancelled), the completion signal of every executed step
\* was received exactly once.
C7_SignalDeliveredOnce ==
    (Quiescent /\ ~cancelled) => \A s \in Steps : runs[s] >= 1 => recvd[s] = 1

\* C8: a step's status only moves Skipped -> InProgress -> Successful or
\* Failed, and never changes after a terminal status.
C8_StatusStep ==
    \A s \in Steps :
        /\ status[s] = "Skipped" => status'[s] \in {"Skipped", "InProgress"}
        /\ status[s] = "InProgress" =>
               status'[s] \in {"InProgress"} \cup Terminal
        /\ status[s] \in Terminal => status'[s] = status[s]

\* C8: every step of every run keeps to that path.
C8_StatusPath == [][C8_StatusStep]_vars

\* C9 (as stated): when RunTask has returned no step is InProgress.
C9_NoInProgressAtReturn ==
    Returned => \A s \in Steps : status[s] # "InProgress"

\* C9 (amended): a step is InProgress only while a worker is between
\* runStep's write of InProgress and processVertex's write of the terminal
\* status: when no worker is there, before or after RunTask returned, no
\* step is InProgress.
C9_InProgressOnlyWhileRunning ==
    (\A w \in workers : ~InRunStep(w)) =>
        \A s \in Steps : status[s] # "InProgress"

\* C9 (witness): RunTask returned an error while a step was still running,
\* and that step has since ended with a terminal status.
C9_Witness ==
    /\ Returned
    /\ ret.kind \in {"step", "ctx"}
    /\ \A w \in workers : ~InRunStep(w)
    /\ \E s \in Steps : endTime[s] > retTime /\ status[s] \in Terminal

\* C10: when a step was interrupted by the cancellation of the root context
\* (its runStep returned an error after the cancel), RunTask does not return
\* nil.
C10_CancelPropagates ==
    (Returned /\ interrupted # {}) => ret.kind # "nil"

\* ================================================================ util
\* Strings are sequences of one-character strings.
Slash == <<"/">>

Space == " "

LibraryPrefix == <<"l", "i", "b", "r", "a", "r", "y", "/">>

DashT == <<"-", "t">>

DashDashTag == <<"-", "-", "t", "a", "g">>

\* strings.HasPrefix(s, prefix)
HasPrefix(s, prefix) ==
    Len(prefix) <= Len(s) /\ SubSeq(s, 1, Len(prefix)) = prefix

\* fmt.Sprintf("%s/%s", registry, img)
Sprintf(r, i) == r \o Slash \o i

\* util.PrefixRegistryToImageName
PrefixAlways(r, i) ==
    IF r = <<>> THEN i
    ELSE IF ~HasPrefix(i, LibraryPrefix) THEN Sprintf(r, i)
    ELSE i

PrefixRegistryToImageName(r, i) ==
    IF r = <<>> THEN i
    ELSE IF ~HasPrefix(i, r) /\ ~HasPrefix(i, LibraryPrefix) THEN Sprintf(r, i)
    ELSE i

\* Length of the first field of s, which starts with a non-space character.
FieldLen(s) ==
    CHOOSE n \in 1..Len(s) :
        /\ \A k \in 1..n : s[k] # Space
        /\ n = Len(s) \/ s[n + 1] = Space

\* strings.Fields(s): the maximal runs of non-space characters.
RECURSIVE Fields(_)
Fields(s) ==
    IF s = <<>> THEN <<>>
    ELSE IF Head(s) = Space THEN Fields(Tail(s))
    ELSE <<SubSeq(s, 1, FieldLen(s))>>
             \o Fields(SubSeq(s, FieldLen(s) + 1, Len(s)))

\* strings.Join(fields, sep)
RECURSIVE Join(_, _)
Join(fields, sep) ==
    IF fields = <<>> THEN <<>>
    ELSE IF Len(fields) = 1 THEN fields[1]
    ELSE fields[1] \o sep \o Join(Tail(fields), sep)

\* The loop of util.PrefixTags from index i on (i - 1 in the Go code, whose
\* slices start at 0): a field that follows "-t" or "--tag" in the fields
\* as rewritten so far is replaced and appended to the tags.
RECURSIVE PrefixTagsLoop(_, _, _, _)
PrefixTagsLoop(fields, tags, i, r) ==
    IF i > Len(fields) THEN [fields |-> fields, tags |-> tags]
    ELSE IF fields[i - 1] = DashT \/ fields[i - 1] = DashDashTag
         THEN LET f == PrefixRegistryToImageName(r, fields[i])
              IN PrefixTagsLoop([fields EXCEPT ![i] = f], Append(tags, f),
                                i + 1, r)
         ELSE PrefixTagsLoop(fields, tags, i + 1, r)

\* util.PrefixTags(cmd, registry): the new command and the tags.
PrefixTags(c, r) ==
    LET l == PrefixTagsLoop(Fields(c), <<>>, 2, r)
    IN [cmd |-> Join(l.fields, <<Space>>), tags |-> l.tags]

\* ---------------------------------------------------------- util: inputs
\* Most parts concatenated into an image name.
MaxParts == 3

\* Most fields of a build command.
MaxFields == 3

RECURSIVE Concat(_)
Concat(q) == IF q = <<>> THEN <<>> ELSE Head(q) \o Concat(Tail(q))

SeqsUpTo(S, n) == UNION {[1..k -> S] : k \in 0..n}

Registries == {<<>>, <<"r">>, <<"r", "x">>}

ImageParts == {<<"r">>, <<"x">>, Slash, LibraryPrefix}

Images == {Concat(q) : q \in SeqsUpTo(ImageParts, MaxParts)}

Words ==
    {DashT, DashDashTag, <<"x">>, <<"r", "x">>, <<"r", "/", "x">>,
     LibraryPrefix \o <<"x">>}

\* Commands: up to MaxFields words, one or two spaces between them, with or
\* without a leading space.
Cmds ==
    {lead \o Join(q, sep) :
        q \in SeqsUpTo(Words, MaxFields),
        sep \in {<<Space>>, <<Space, Space>>},
        lead \in {<<>>, <<Space>>}}

InitUtil ==
    /\ DagIdle
    /\ StepIdle
    /\ LifeIdle
    /\ LoadIdle
    /\ registry \in Registries
    /\ \/ img \in Images /\ cmd = <<>>
       \/ img = <<>> /\ cmd \in Cmds
    /\ results = <<>>
    /\ tagged = <<>>

\* A caller applies PrefixRegistryToImageName to img, then to the result.
CallPrefixRegistryToImageName ==
    /\ Len(results) < 2
    /\ results' =
           Append(results,
                  PrefixRegistryToImageName(
                      registry,
                      IF results = <<>> THEN img ELSE results[Len(results)]))
    /\ UNCHANGED <<registry, img, cmd, tagged>>
    /\ UNCHANGED <<dagVars, stepVars, lifeVars, loadVars>>

\* A caller applies PrefixTags to cmd.
CallPrefixTags ==
    /\ tagged = <<>>
    /\ tagged' = <<PrefixTags(cmd, registry)>>
    /\ UNCHANGED <<registry, img, cmd, results>>
    /\ UNCHANGED <<dagVars, stepVars, lifeVars, loadVars>>

NextUtil == CallPrefixRegistryToImageName \/ CallPrefixTags

SpecUtil == InitUtil /\ [][NextUtil]_vars

\* ---------------------------------------------------------- util: claims
\* C19: PrefixRegistryToImageName is idempotent (applied to its own result
\* it returns that result), and it returns img unchanged when img starts
\* with registry + "/" or with "library/".
C19_PrefixIdempotent ==
    /\ Len(results) = 2 => results[2] = results[1]
    /\ (/\ Len(results) >= 1
        /\ \/ HasPrefix(img, registry \o Slash)
           \/ HasPrefix(img, LibraryPrefix)) => results[1] = img

\* C19 (witness): a registry was prefixed by the first application and the
\* second application has been made.
C19_Witness ==
    /\ registry # <<>>
    /\ Len(results) = 2
    /\ results[1] = Sprintf(registry, img)
    /\ results[1] # img

IsTagFlag(f) == f = DashT \/ f = DashDashTag

\* The positions of the arguments of a -t or --tag field.
TagArgs(f) == {i \in 2..Len(f) : IsTagFlag(f[i - 1])}

\* The tag the claim expects for the argument t.
ClaimedTag(r, t) ==
    IF HasPrefix(t, r \o Slash) \/ HasPrefix(t, LibraryPrefix) THEN t
    ELSE Sprintf(r, t)

ClaimedFields(r, f) ==
    [i \in 1..Len(f) |->
        IF i \in TagArgs(f) THEN ClaimedTag(r, f[i]) ELSE f[i]]

\* The k-th smallest element of the set of positions I.
Kth(I, k) == CHOOSE i \in I : Cardinality({j \in I : j < i}) = k - 1

\* C20: for a non-empty registry (and a command in which no -t or --tag is
\* itself the argument of a -t or --tag), PrefixTags rewrites every argument
\* of a -t or --tag to registry + "/" + tag unless the tag starts with
\* registry + "/" or with "library/", returns the rewritten tags in order of
\* appearance and changes no other field.
C20_PrefixTagsRewrites ==
    (/\ tagged # <<>>
     /\ registry # <<>>
     /\ \A i \in TagArgs(Fields(cmd)) : ~IsTagFlag(Fields(cmd)[i])) =>
        LET f == Fields(cmd)
            g == ClaimedFields(registry, f)
        IN /\ Fields(tagged[1].cmd) = g
           /\ Len(tagged[1].tags) = Cardinality(TagArgs(f))
           /\ \A k \in 1..Len(tagged[1].tags) :
                  tagged[1].tags[k] = g[Kth(TagArgs(f), k)]

\* ================================================================ runStep
\* One call of runStep in detail: the start delay, the explicit pull, the
\* dependency scan, the engine call with its context, and what processVertex
\* does with the result. Time passes while the worker is blocked; a
\* subprocess is killed as soon as its context is done. (GOOS is taken to be
\* linux: the Windows pre-run of lines 337-341 is not taken.)

\* The clock stops here.
MaxClock == 4

\* scrapeTimeoutInSec
scrapeTimeoutInSec == 2

Transient == <<"t", "r", "a", "n", "s", "i", "e", "n", "t">>

TransientFailure == Transient \o <<" ", "f", "a", "i", "l", "u", "r", "e">>

Fatal == <<"f", "a", "t", "a", "l">>

\* What one subprocess invocation can come to: exit 0, or a failure with its
\* combined output.
Success == [ok |-> TRUE, out |-> <<>>]

Outcomes == {Success} \cup {[ok |-> FALSE, out |-> o] :
                               o \in {TransientFailure, Fatal}}

\* The steps explored. Pull is a field of cmd steps.
StepInputs ==
    {st \in [kind : {"build", "push", "cmd"}, pull : BOOLEAN,
             startDelay : {0, 2}, timeout : {1, 3}, retries : {0, 1, 3},
             retryOnErrors : {{}, {Transient}}, retryDelay : {0, 1},
             repeat : {0, 1}, ignoreErrors : BOOLEAN] :
        st.pull => st.kind = "cmd"}

\* Variables no step of the worker changes, and the process manager's.
envVars == <<step, clock, expired, ctxDone, cancelTime, cancelledInSleep>>

procVars == <<call, attempt, outs, rounds, invocations>>

InitStep ==
    /\ DagIdle
    /\ UtilIdle
    /\ LifeIdle
    /\ LoadIdle
    /\ step \in StepInputs
    /\ StepEntry

\* The error of a context with deadline d (0: no deadline), "none" while the
\* context is live.
CtxErr(d) ==
    IF ctxDone THEN "cancelled"
    ELSE IF d > 0 /\ clock >= d THEN "timeout"
    ELSE "none"

\* runStep returns e.
Return(e) == rpc' = "returned" /\ runErr' = e

\* `if step.IsCmdStep() && step.Pull`
AfterDelay == IF step.kind = "cmd" /\ step.pull THEN "pull" ELSE "begin"

\* `if step.StartDelay > 0 { time.Sleep(StartDelay seconds) }`
StartDelay ==
    /\ rpc = "start"
    /\ IF step.startDelay > 0
       THEN rpc' = "sleep" /\ wake' = clock + step.startDelay
       ELSE rpc' = AfterDelay /\ wake' = wake
    /\ UNCHANGED <<deadline, stepStatus, runErr, posted>>
    /\ UNCHANGED <<envVars, procVars, dagVars, utilVars, lifeVars, loadVars>>

\* time.Sleep returns when the delay has passed, and for nothing else.
SleepEnds ==
    /\ rpc = "sleep"
    /\ clock >= wake
    /\ rpc' = AfterDelay
    /\ UNCHANGED <<wake, deadline, stepStatus, runErr, posted>>
    /\ UNCHANGED <<envVars, procVars, dagVars, utilVars, lifeVars, loadVars>>

\* b.pullImageBeforeRun(ctx, ...): under the root context, without deadline.
Pull ==
    /\ rpc = "pull"
    /\ \E ok \in BOOLEAN :
         /\ ok => CtxErr(0) = "none"
         /\ IF ok THEN rpc' = "begin" /\ runErr' = runErr
            ELSE Return(IF ctxDone THEN "cancelled" ELSE "pull")
    /\ UNCHANGED <<wake, deadline, stepStatus, posted>>
    /\ UNCHANGED <<envVars, procVars, dagVars, utilVars, lifeVars, loadVars>>

\* The arguments of the engine call of a build or cmd step.
RunStepCallNoPatterns(st) ==
    [fn |-> "RunRepeatWithRetries", retries |-> st.retries,
     retryOnErrors |-> {}, retryDelay |-> st.retryDelay,
     repeat |-> st.repeat]

RunStepCallNoRepeat(st) ==
    [fn |-> "RunRepeatWithRetries", retries |-> st.retries,
     retryOnErrors |-> st.retryOnErrors, retryDelay |-> st.retryDelay,
     repeat |-> 0]

RunStepCall(st) ==
    [fn |-> "RunRepeatWithRetries", retries |-> st.retries,
     retryOnErrors |-> st.retryOnErrors, retryDelay |-> st.retryDelay,
     repeat |-> st.repeat]

\* The engine call of a push step: b.pushWithRetries(pushCtx, step.Push).
PushCall(st) == [fn |-> "pushWithRetries"]

\* stepCtx (pushCtx) := context.WithTimeout(ctx, step.Timeout seconds)
StepDeadline == clock + step.timeout

\* StepStatus = InProgress, StartTime, then the branch of the step's kind:
\* a build step starts the dependency scan under scrapeCtx, a push step calls
\* pushWithRetries under pushCtx, a cmd step calls RunRepeatWithRetries under
\* stepCtx.
Begin ==
    /\ rpc = "begin"
    /\ stepStatus' = "InProgress"
    /\ IF step.kind = "build"
       THEN /\ rpc' = "scrape"
            /\ deadline' = clock + scrapeTimeoutInSec
            /\ call' = call
       ELSE IF step.kind = "push"
       THEN /\ rpc' = "push"
            /\ deadline' = StepDeadline
            /\ call' = PushCall(step)
       ELSE /\ rpc' = "rwr"
            /\ deadline' = StepDeadline
            /\ call' = RunStepCall(step)
    /\ UNCHANGED <<wake, runErr, posted, attempt, outs, rounds, invocations>>
    /\ UNCHANGED <<envVars, dagVars, utilVars, lifeVars, loadVars>>

\* b.scrapeDependencies(scrapeCtx, ...), then the build's engine call.
Scrape ==
    /\ rpc = "scrape"
    /\ \E ok \in BOOLEAN :
         /\ ok => CtxErr(deadline) = "none"
         /\ IF ok
            THEN /\ rpc' = "rwr"
                 /\ deadline' = StepDeadline
                 /\ call' = RunStepCall(step)
                 /\ runErr' = runErr
            ELSE /\ Return("scan")
                 /\ UNCHANGED <<deadline, call>>
    /\ UNCHANGED <<wake, stepStatus, posted, attempt, outs, rounds,
                   invocations>>
    /\ UNCHANGED <<envVars, dagVars, utilVars, lifeVars, loadVars>>

\* b.pushWithRetries(pushCtx, step.Push): the pushes, retried by the
\* function itself, end well or with an error; the context's error once
\* pushCtx is done.
Push ==
    /\ rpc = "push"
    /\ \E ok \in BOOLEAN :
         /\ ok => CtxErr(deadline) = "none"
         /\ IF ok THEN Return("nil")
            ELSE IF CtxErr(deadline) # "none" THEN Return(CtxErr(deadline))
            ELSE Return("push")
         /\ invocations' = invocations + 1
    /\ UNCHANGED <<wake, deadline, stepStatus, posted, call, attempt, outs,
                   rounds>>
    /\ UNCHANGED <<envVars, dagVars, utilVars, lifeVars, loadVars>>

\* strings.Contains(s, sub)
Contains(s, sub) ==
    \E i \in 1..(Len(s) - Len(sub) + 1) :
        SubSeq(s, i, i + Len(sub) - 1) = sub

\* RunWithRetries: a failed invocation with combined output out is retried
\* when there are no patterns or out contains one of them.
ShouldRetry(patterns, out) ==
    patterns = {} \/ \E pat \in patterns : Contains(out, pat)

\* RunWithRetries: the next invocation is launched once the retry delay has
\* passed, unless the context is done.
Launch ==
    /\ rpc = "rwr"
    /\ IF CtxErr(deadline) # "none"
       THEN /\ Return(CtxErr(deadline))
            /\ UNCHANGED <<attempt, outs, invocations>>
       ELSE /\ clock >= wake
            /\ rpc' = "attempt"
            /\ attempt' = attempt + 1
            /\ outs' = IF attempt = 0 THEN <<>> ELSE outs
            /\ invocations' = invocations + 1
            /\ runErr' = runErr
    /\ UNCHANGED <<wake, deadline, stepStatus, posted, call, rounds>>
    /\ UNCHANGED <<envVars, dagVars, utilVars, lifeVars, loadVars>>

\* The invocation ends: killed when its context is done; else with exit 0,
\* which ends this RunWithRetries (RunRepeatWithRetries then starts the next
\* one until `repeat` more have succeeded); else with a failure, which is
\* retried after retryDelay seconds or returned.
Exit ==
    /\ rpc = "attempt"
    /\ IF CtxErr(deadline) # "none"
       THEN /\ Return(CtxErr(deadline))
            /\ UNCHANGED <<wake, attempt, outs, rounds>>
       ELSE \E o \in Outcomes :
              /\ outs' = Append(outs, o)
              /\ IF o.ok
                 THEN /\ rounds' = rounds + 1
                      /\ wake' = wake
                      /\ IF rounds + 1 > call.repeat
                         THEN Return("nil") /\ attempt' = attempt
                         ELSE /\ rpc' = "rwr"
                              /\ attempt' = 0
                              /\ runErr' = runErr
                 ELSE /\ UNCHANGED <<rounds, attempt>>
                      /\ IF /\ attempt <= call.retries
                            /\ ShouldRetry(call.retryOnErrors, o.out)
                         THEN /\ rpc' = "rwr"
                              /\ wake' = clock + call.retryDelay
                              /\ runErr' = runErr
                         ELSE Return("exit") /\ wake' = wake
    /\ UNCHANGED <<deadline, stepStatus, posted, call, invocations>>
    /\ UNCHANGED <<envVars, dagVars, utilVars, lifeVars, loadVars>>

\* processVertex after runStep returned: the status, and the error for
\* errorChan.
ProcessVertexEnd ==
    /\ rpc = "returned"
    /\ rpc' = "done"
    /\ stepStatus' = TerminalStatus(runErr # "nil", step.ignoreErrors)
    /\ posted' = IF PostsError(runErr # "nil", step.ignoreErrors)
                 THEN runErr ELSE "none"
    /\ UNCHANGED <<wake, deadline, runErr>>
    /\ UNCHANGED <<envVars, procVars, dagVars, utilVars, lifeVars, loadVars>>

\* The worker is in a call that takes time.
Blocked == rpc \in {"sleep", "pull", "scrape", "push", "rwr", "attempt"}

\* The call returns now: the sleep is over, or the context of a subprocess
\* is done.
Urgent ==
    \/ rpc \in {"sleep", "rwr"} /\ clock >= wake
    \/ rpc = "pull" /\ CtxErr(0) # "none"
    \/ rpc \in {"scrape", "push", "rwr", "attempt"}
          /\ CtxErr(deadline) # "none"

\* A second passes.
Tick ==
    /\ clock < MaxClock
    /\ Blocked
    /\ ~Urgent
    /\ clock' = clock + 1
    /\ expired' = (expired \/ clock + 1 >= step.timeout)
    /\ UNCHANGED <<step, rpc, wake, deadline, ctxDone, stepStatus, runErr,
                   posted, cancelTime, cancelledInSleep>>
    /\ UNCHANGED <<procVars, dagVars, utilVars, lifeVars, loadVars>>

\* The caller cancels the root context while runStep is running.
CancelStep ==
    /\ ~ctxDone
    /\ rpc \notin {"returned", "done"}
    /\ ctxDone' = TRUE
    /\ cancelTime' = clock
    /\ cancelledInSleep' = (rpc = "sleep")
    /\ UNCHANGED <<step, rpc, clock, wake, deadline, stepStatus, runErr,
                   posted, expired>>
    /\ UNCHANGED <<procVars, dagVars, utilVars, lifeVars, loadVars>>

NextStep ==
    \/ StartDelay
    \/ SleepEnds
    \/ Pull
    \/ Begin
    \/ Scrape
    \/ Push
    \/ Launch
    \/ Exit
    \/ ProcessVertexEnd
    \/ Tick
    \/ CancelStep

SpecStep == InitStep /\ [][NextStep]_vars

\* -------------------------------------------------------- runStep: claims
\* The worker is past the start delay and runStep has not returned.
Working == rpc \in {"pull", "begin", "scrape", "push", "rwr", "attempt"}

\* runStep has been called and has not returned.
Running == rpc \notin {"returned", "done"}

\* C11: the StartDelay wait is interruptible by the context: after a cancel
\* that came during the wait, no time passes in the wait and the step does
\* no work.
C11_StartDelayInterruptible ==
    cancelledInSleep =>
        /\ rpc = "sleep" => clock = cancelTime
        /\ ~Working

\* C12: the per-step timeout covers all of the step's work: runStep (of a
\* step without StartDelay, so that all its time is work) never runs past
\* step.Timeout, and a step whose timeout expired while it was running ends
\* Failed with the timeout error sent to RunTask.
C12_TimeoutCoversStep ==
    step.startDelay = 0 =>
        /\ Running => clock <= step.timeout
        /\ (rpc = "done" /\ expired) =>
               stepStatus = "Failed" /\ posted = "timeout"

\* The call the claim expects of runStep for the step.
ThroughRunRepeat ==
    [fn |-> "RunRepeatWithRetries",
     retries |-> step.retries,
     retryOnErrors |-> step.retryOnErrors,
     retryDelay |-> step.retryDelay,
     repeat |-> step.repeat]

\* C13 (as stated): whatever the step's kind, its engine call is
\* RunRepeatWithRetries with the step's Retries, RetryOnErrors, RetryDelay
\* and Repeat, and a step that ended without error made Repeat + 1
\* successful series.
C13_EveryKindThroughRunRepeat ==
    /\ call # NoCall => call = ThroughRunRepeat
    /\ (rpc = "done" /\ runErr = "nil") => rounds = step.repeat + 1

\* C13 (amended): the engine call of a build or cmd step is
\* RunRepeatWithRetries with the step's Retries, RetryOnErrors, RetryDelay
\* and Repeat, and such a step that ended without error made Repeat + 1
\* successful series; the engine call of a push step is pushWithRetries,
\* which gets none of them and makes no such series.
C13_BuildAndCmdThroughRunRepeat ==
    /\ (call # NoCall /\ step.kind # "push") => call = ThroughRunRepeat
    /\ (rpc = "done" /\ runErr = "nil" /\ step.kind # "push") =>
           rounds = step.repeat + 1
    /\ step.kind = "push" =>
           /\ call \in {NoCall, [fn |-> "pushWithRetries"]}
           /\ rounds = 0

\* C13 (witness): a build step with Repeat = 1 ended without error after
\* two successful series.
C13_Witness ==
    /\ step.kind = "build"
    /\ step.repeat = 1
    /\ rpc = "done"
    /\ runErr = "nil"
    /\ rounds = 2

\* The three invocations of the scenario of C14.
TransientTwiceThenSuccess ==
    <<[ok |-> FALSE, out |-> TransientFailure],
      [ok |-> FALSE, out |-> TransientFailure], Success>>

RetryScenario ==
    /\ step.kind # "push"
    /\ step.retries = 3
    /\ step.retryOnErrors = {Transient}
    /\ step.repeat = 0
    /\ outs = TransientTwiceThenSuccess

\* C14: one RunWithRetries invokes the subprocess at most retries + 1 times;
\* only its last invocation can succeed; every invocation before the last
\* failed with no patterns given or with an output containing a pattern; a
\* failure that is not to be retried is returned at once; and in the
\* scenario (retries 3, pattern "transient", two transient failures, then
\* success) there are exactly three invocations and the step ends
\* Successful.
C14_RunWithRetries ==
    (call # NoCall /\ step.kind # "push") =>
        /\ attempt <= step.retries + 1
        /\ Len(outs) <= step.retries + 1
        /\ \A i \in 1..(Len(outs) - 1) :
               ~outs[i].ok /\ ShouldRetry(step.retryOnErrors, outs[i].out)
        /\ (/\ outs # <<>>
            /\ ~outs[Len(outs)].ok
            /\ ~ShouldRetry(step.retryOnErrors, outs[Len(outs)].out)) =>
               runErr = "exit"
        /\ RetryScenario =>
               /\ invocations = 3
               /\ runErr = "nil"
               /\ rpc = "done" => stepStatus = "Successful"

\* C14 (witness): the scenario has run to its end.
C14_Witness ==
    /\ RetryScenario
    /\ rpc = "done"
    /\ invocations = 3
    /\ stepStatus = "Successful"

\* ======================================================= process lifetime
\* RunTask's pre-execution and digest pass and CleanTask in detail, over
\* the calls one process makes. The execution of the steps (the workers and
\* the barrier of Spec) is one step here: it leaves some status on every
\* step and either reaches the digest pass or returns an error.

\* Most calls of RunTask by one process.
MaxCalls == 2

Dep(i, r, b) == [image |-> i, runtime |-> r, buildtime |-> b]

Net(n, skip) == [name |-> n, skipCreation |-> skip]

\* A volume; secret: its source is of type Secret.
Vol(n, secret) == [name |-> n, secret |-> secret]

\* The tasks explored: Networks, RegistryLoginCredentials (creds),
\* InitBuildkitContainer, Volumes, Steps, the dependencies a step's scan
\* finds, and the steps for which UseBuildCacheForBuildStep() and
\* UsesBuildkit hold.
CacheTask ==
    [networks |-> <<Net("n1", FALSE), Net("n2", TRUE)>>,
     creds |-> TRUE, initBuildkit |-> TRUE,
     volumes |-> <<Vol("v1", TRUE)>>,
     steps |-> <<"s1", "s2">>,
     deps |-> [s \in {"s1", "s2"} |->
                 IF s = "s1" THEN <<Dep("i1", "r1", <<"b1">>)>> ELSE <<>>],
     useCache |-> {"s1"}, usesBuildkit |-> {}]

BuildkitTask ==
    [networks |-> <<Net("n1", FALSE), Net("n3", FALSE)>>,
     creds |-> FALSE, initBuildkit |-> FALSE,
     volumes |-> <<Vol("v1", TRUE), Vol("v2", TRUE)>>,
     steps |-> <<"s1", "s2">>,
     deps |-> [s \in {"s1", "s2"} |->
                 IF s = "s1" THEN <<Dep("i1", "r1", <<>>)>>
                 ELSE <<Dep("i2", "r2", <<"b1", "b2">>),
                        Dep("i3", "r1", <<"b2">>)>>],
     useCache |-> {}, usesBuildkit |-> {"s2"}]

PlainTask ==
    [networks |-> <<>>, creds |-> FALSE, initBuildkit |-> TRUE,
     volumes |-> <<Vol("v2", TRUE)>>,
     steps |-> <<"s1">>,
     deps |-> [s \in {"s1"} |-> <<Dep("i1", "r1", <<"b1">>)>>],
     useCache |-> {}, usesBuildkit |-> {}]

\* A task with a volume whose source is not of type Secret.
VolumeTask ==
    [networks |-> <<Net("n3", FALSE)>>, creds |-> FALSE,
     initBuildkit |-> FALSE,
     volumes |-> <<Vol("v1", TRUE), Vol("v3", FALSE)>>,
     steps |-> <<"s1">>,
     deps |-> [s \in {"s1"} |-> <<>>],
     useCache |-> {}, usesBuildkit |-> {}]

LifeTasks == {CacheTask, BuildkitTask, PlainTask, VolumeTask}

LSteps == Range(ltask.steps)

StepStatuses == {"Skipped", "InProgress", "Successful", "Failed"}

engineVars == <<netExists, volExists>>

digestVars == <<dpos, lookups, lookupFailed, reported>>

cleanVars == <<cleanPending, rmAttempts, netDelAttempts, failedOps, stopped>>

InitLife ==
    /\ DagIdle
    /\ UtilIdle
    /\ StepIdle
    /\ LoadIdle
    /\ goos \in {"linux", "windows"}
    /\ ProcessStart

\* A pre-execution operation that returned, and how.
Done(op, arg) == [op |-> op, arg |-> arg]

\* RunTask returns e.
LReturn(e) == lpc' = "returned" /\ lret' = e

\* The caller calls RunTask: at the start, after a call returned, or after
\* the cleanup.
CallRunTask ==
    /\ lpc \in {"idle", "returned", "cleaned"}
    /\ calls < MaxCalls
    /\ calls' = calls + 1
    /\ ltask' \in LifeTasks
    /\ lpc' = "networks"
    /\ lidx' = 1
    /\ dpos' = 1
    /\ createdNets' = {}
    /\ createdVols' = {}
    /\ lret' = "none"
    /\ lstatus' = [x \in Range(ltask'.steps) |-> "Skipped"]
    /\ ldeps' = [x \in Range(ltask'.steps) |-> <<>>]
    /\ lookups' = <<>>
    /\ lookupFailed' = FALSE
    /\ reported' = FALSE
    /\ cleanPending' = {}
    /\ rmAttempts' = {}
    /\ netDelAttempts' = {}
    /\ failedOps' = {}
    /\ stopped' = FALSE
    /\ preDone' = <<>>
    /\ UNCHANGED <<goos, engineVars, buildkitInits>>
    /\ UNCHANGED <<dagVars, utilVars, stepVars, loadVars>>

\* `if network.SkipCreation { ...; continue }`
SkipsCreationAlways(network) == TRUE

SkipsCreation(network) == network.skipCreation

\* The loop over task.Networks: a network with SkipCreation is passed over,
\* a failed creation (the creation of a network that exists fails) returns.
CreateNetworks ==
    /\ lpc = "networks"
    /\ IF lidx > Len(ltask.networks)
       THEN /\ lpc' = "config"
            /\ UNCHANGED <<lidx, netExists, createdNets, lret>>
       ELSE LET network == ltask.networks[lidx] IN
            IF SkipsCreation(network)
            THEN /\ lidx' = lidx + 1
                 /\ UNCHANGED <<lpc, netExists, createdNets, lret>>
            ELSE \E ok \in BOOLEAN :
                   /\ network.name \in netExists => ~ok
                   /\ IF ok
                      THEN /\ netExists' = netExists \cup {network.name}
                           /\ createdNets' = createdNets \cup {network.name}
                           /\ lidx' = lidx + 1
                           /\ UNCHANGED <<lpc, lret>>
                      ELSE /\ LReturn("network")
                           /\ UNCHANGED <<lidx, netExists, createdNets>>
    /\ preDone' = IF createdNets' # createdNets
                  THEN Append(preDone,
                              Done("network", ltask.networks[lidx].name))
                  ELSE preDone
    /\ UNCHANGED <<goos, ltask, calls, volExists, createdVols, buildkitInits,
                   lstatus, ldeps, digestVars, cleanVars>>
    /\ UNCHANGED <<dagVars, utilVars, stepVars, loadVars>>

\* b.setupConfig(configCtx)
SetupConfig ==
    /\ lpc = "config"
    /\ \E ok \in BOOLEAN :
         IF ok THEN lpc' = "login" /\ lret' = lret ELSE LReturn("config")
    /\ preDone' = IF lpc' = "login" THEN Append(preDone, Done("config", ""))
                  ELSE preDone
    /\ UNCHANGED <<goos, ltask, lidx, calls, engineVars, createdNets,
                   createdVols, buildkitInits, lstatus, ldeps, digestVars,
                   cleanVars>>
    /\ UNCHANGED <<dagVars, utilVars, stepVars, loadVars>>

\* The registry logins, when the task has credentials.
Login ==
    /\ lpc = "login"
    /\ \E ok \in BOOLEAN :
         /\ ~ok => ltask.creds
         /\ IF ok THEN lpc' = "buildkitd" /\ lret' = lret
            ELSE LReturn("login")
    /\ preDone' = IF lpc' = "buildkitd" /\ ltask.creds
                  THEN Append(preDone, Done("login", ""))
                  ELSE preDone
    /\ UNCHANGED <<goos, ltask, lidx, calls, engineVars, createdNets,
                   createdVols, buildkitInits, lstatus, ldeps, digestVars,
                   cleanVars>>
    /\ UNCHANGED <<dagVars, utilVars, stepVars, loadVars>>

\* `if task.InitBuildkitContainer`: the number of initializations after it.
InitsAfter(n, init) == IF init THEN n + 1 ELSE n

\* RunTask after the buildkitd initialization returned r, were its error
\* returned.
AfterBuildkitdAbort(r) == IF r = "failed" THEN "returned" ELSE "volumes"

\* RunTask after the buildkitd initialization returned r: the volumes.
AfterBuildkitd(r) == "volumes"

\* The buildkitd initialization: whether RunRepeatWithRetries returns nil or
\* an error (which is logged, not returned), RunTask goes on.
InitBuildkitContainer ==
    /\ lpc = "buildkitd"
    /\ buildkitInits' = InitsAfter(buildkitInits, ltask.initBuildkit)
    /\ lidx' = 1
    /\ \E r \in {"ok", "failed"} :
         /\ preDone' = IF ltask.initBuildkit
                       THEN Append(preDone, Done("buildkitd", r))
                       ELSE preDone
         /\ lpc' = IF ltask.initBuildkit THEN AfterBuildkitd(r)
                   ELSE "volumes"
    /\ UNCHANGED <<goos, ltask, calls, engineVars, createdNets, createdVols,
                   lret, lstatus, ldeps, digestVars, cleanVars>>
    /\ UNCHANGED <<dagVars, utilVars, stepVars, loadVars>>

\* The loop over task.Volumes, b.prepareVolumeSource: a source that is not
\* a Secret is an error; createSecretFiles may fail; populateSecretVolume
\* runs a container that mounts the volume, which creates it, and may fail.
PrepareVolumes ==
    /\ lpc = "volumes"
    /\ IF lidx > Len(ltask.volumes)
       THEN /\ lpc' = "steps"
            /\ UNCHANGED <<lidx, volExists, createdVols, lret>>
       ELSE LET volMount == ltask.volumes[lidx] IN
            \E r \in {"ok", "files", "populate"} :
              /\ ~volMount.secret => r = "files"
              /\ IF r = "files"
                 THEN UNCHANGED <<volExists, createdVols>>
                 ELSE /\ volExists' = volExists \cup {volMount.name}
                      /\ createdVols' = createdVols \cup {volMount.name}
              /\ IF r = "ok" THEN lidx' = lidx + 1 /\ UNCHANGED <<lpc, lret>>
                 ELSE LReturn("volume") /\ lidx' = lidx
    /\ preDone' = IF lidx' = lidx + 1
                  THEN Append(preDone,
                              Done("volume", ltask.volumes[lidx].name))
                  ELSE preDone
    /\ UNCHANGED <<goos, ltask, calls, netExists, createdNets, buildkitInits,
                   lstatus, ldeps, digestVars, cleanVars>>
    /\ UNCHANGED <<dagVars, utilVars, stepVars, loadVars>>

\* The workers and the barrier: every step is left with some status, a step
\* whose scan ran has its ImageDependencies, and the barrier either lets
\* RunTask go on to the digest pass or returns an error.
RunSteps ==
    /\ lpc = "steps"
    /\ \E st \in [LSteps -> StepStatuses], scanned \in SUBSET LSteps,
          r \in {"nil", "step", "ctx"} :
         /\ \A x \in scanned : st[x] # "Skipped"
         /\ lstatus' = st
         /\ ldeps' = [x \in LSteps |->
                        IF x \in scanned THEN ltask.deps[x] ELSE <<>>]
         /\ IF r = "nil" THEN lpc' = "digest" /\ lret' = lret
            ELSE LReturn(r)
    /\ lidx' = 1
    /\ UNCHANGED preDone
    /\ UNCHANGED <<goos, ltask, calls, engineVars, createdNets, createdVols,
                   buildkitInits, digestVars, cleanVars>>
    /\ UNCHANGED <<dagVars, utilVars, stepVars, loadVars>>

\* `usingBuildkit`: (step.UseBuildCacheForBuildStep() && GOOS == linux) ||
\* step.UsesBuildkit
UsingBuildkitNever(t, x) == FALSE

UsingBuildkit(t, x) ==
    (x \in t.useCache /\ goos = "linux") \/ x \in t.usesBuildkit

\* getPopulateDigests: the digester of the base images.
BaseImgDigester(usingBuildkit) == IF usingBuildkit THEN "remote" ELSE "local"

Lookup(i, f, src) == [image |-> i, field |-> f, source |-> src]

\* getPopulateDigests: the lookups of one entry, in order.
EntryLookups(entry, base) ==
    <<Lookup(entry.image, "Image", "local"),
      Lookup(entry.runtime, "Runtime", base)>>
        \o [i \in 1..Len(entry.buildtime) |->
              Lookup(entry.buildtime[i], "Buildtime", base)]

\* getPopulateDigests: the lookups of a step's entries, in order.
RECURSIVE PopulateLookups(_, _)
PopulateLookups(entries, base) ==
    IF entries = <<>> THEN <<>>
    ELSE EntryLookups(Head(entries), base)
             \o PopulateLookups(Tail(entries), base)

\* The digest pass over task.Steps: a step without ImageDependencies is
\* passed over; the lookups of the others are made one by one, and the
\* first error returns; after the last step the report is logged when there
\* are dependencies.
PopulateDigests ==
    /\ lpc = "digest"
    /\ IF lidx > Len(ltask.steps)
       THEN /\ reported' = (\E x \in LSteps : ldeps[x] # <<>>)
            /\ LReturn("nil")
            /\ UNCHANGED <<lidx, dpos, lookups, lookupFailed>>
       ELSE LET x == ltask.steps[lidx]
                plan == PopulateLookups(
                            ldeps[x],
                            BaseImgDigester(UsingBuildkit(ltask, x)))
            IN IF dpos > Len(plan)
               THEN /\ lidx' = lidx + 1
                    /\ dpos' = 1
                    /\ UNCHANGED <<lpc, lret, lookups, lookupFailed,
                                   reported>>
               ELSE \E ok \in BOOLEAN :
                      /\ lookups' = Append(lookups,
                                           [step |-> x, at |-> plan[dpos]])
                      /\ lookupFailed' = ~ok
                      /\ IF ok
                         THEN dpos' = dpos + 1 /\ UNCHANGED <<lpc, lret>>
                         ELSE LReturn("digest") /\ dpos' = dpos
                      /\ UNCHANGED <<lidx, reported>>
    /\ UNCHANGED preDone
    /\ UNCHANGED <<goos, ltask, calls, engineVars, createdNets, createdVols,
                   buildkitInits, lstatus, ldeps, cleanVars>>
    /\ UNCHANGED <<dagVars, utilVars, stepVars, loadVars>>

\* ---------------------------------------------------------------- CleanTask
\* The caller calls CleanTask after RunTask returned.
CallCleanTask ==
    /\ lpc = "returned"
    /\ lpc' = "clean"
    /\ cleanPending' = LSteps
    /\ lidx' = 1
    /\ UNCHANGED <<rmAttempts, netDelAttempts, failedOps, stopped>>
    /\ UNCHANGED preDone
    /\ UNCHANGED <<goos, ltask, calls, engineVars, createdNets, createdVols,
                   buildkitInits, lret, lstatus, ldeps, digestVars>>
    /\ UNCHANGED <<dagVars, utilVars, stepVars, loadVars>>

\* `if step.StepStatus != graph.Skipped`
ShouldRemoveAlways(st) == TRUE

ShouldRemove(st) == st # "Skipped"

\* The loop over task.Dag.Nodes (a map: any order): `docker rm -f` of the
\* step's container, whose error is dropped.
CleanStep ==
    /\ lpc = "clean"
    /\ \E x \in cleanPending, ok \in BOOLEAN :
         /\ cleanPending' = cleanPending \ {x}
         /\ IF ShouldRemove(lstatus[x])
            THEN /\ rmAttempts' = rmAttempts \cup {x}
                 /\ failedOps' = IF ok THEN failedOps ELSE failedOps \cup {x}
            ELSE ok /\ UNCHANGED <<rmAttempts, failedOps>>
    /\ UNCHANGED <<netDelAttempts, stopped>>
    /\ UNCHANGED preDone
    /\ UNCHANGED <<goos, ltask, lpc, lidx, calls, engineVars, createdNets,
                   createdVols, buildkitInits, lret, lstatus, ldeps,
                   digestVars>>
    /\ UNCHANGED <<dagVars, utilVars, stepVars, loadVars>>

\* The loop over task.Networks: a network with SkipCreation is passed over,
\* the others are deleted, a failure is logged; then procManager.Stop().
CleanNetworks ==
    /\ lpc = "clean"
    /\ cleanPending = {}
    /\ IF lidx > Len(ltask.networks)
       THEN /\ stopped' = TRUE
            /\ lpc' = "cleaned"
            /\ UNCHANGED <<lidx, netExists, netDelAttempts, failedOps>>
       ELSE LET network == ltask.networks[lidx] IN
            /\ lidx' = lidx + 1
            /\ UNCHANGED <<lpc, stopped>>
            /\ IF network.skipCreation
               THEN UNCHANGED <<netExists, netDelAttempts, failedOps>>
               ELSE \E ok \in BOOLEAN :
                      /\ ok => network.name \in netExists
                      /\ netDelAttempts' = netDelAttempts \cup {network.name}
                      /\ netExists' = IF ok THEN netExists \ {network.name}
                                      ELSE netExists
                      /\ failedOps' = IF ok THEN failedOps
                                      ELSE failedOps \cup {network.name}
    /\ UNCHANGED <<cleanPending, rmAttempts>>
    /\ UNCHANGED preDone
    /\ UNCHANGED <<goos, ltask, calls, volExists, createdNets, createdVols,
                   buildkitInits, lret, lstatus, ldeps, digestVars>>
    /\ UNCHANGED <<dagVars, utilVars, stepVars, loadVars>>

\* A worker that was still running when RunTask returned goes on until the
\* process manager is stopped: it runs its step, or ends it.
Straggler ==
    /\ lpc \in {"returned", "clean"}
    /\ lret \in {"step", "ctx"}
    /\ \E x \in LSteps :
         \/ /\ lstatus[x] = "Skipped"
            /\ lstatus' = [lstatus EXCEPT ![x] = "InProgress"]
         \/ /\ lstatus[x] = "InProgress"
            /\ \E t \in {"Successful", "Failed"} :
                 lstatus' = [lstatus EXCEPT ![x] = t]
    /\ UNCHANGED preDone
    /\ UNCHANGED <<goos, ltask, lpc, lidx, calls, engineVars, createdNets,
                   createdVols, buildkitInits, lret, ldeps, digestVars,
                   cleanVars>>
    /\ UNCHANGED <<dagVars, utilVars, stepVars, loadVars>>

NextLife ==
    \/ CallRunTask
    \/ CreateNetworks
    \/ SetupConfig
    \/ Login
    \/ InitBuildkitContainer
    \/ PrepareVolumes
    \/ RunSteps
    \/ PopulateDigests
    \/ CallCleanTask
    \/ CleanStep
    \/ CleanNetworks
    \/ Straggler

SpecLife == InitLife /\ [][NextLife]_vars

\* ------------------------------------------------------- lifetime: claims
\* C15: the buildkitd initialization runs at most once in the lifetime of
\* the process, whatever RunTask calls it makes.
C15_BuildkitInitOnce == buildkitInits <= 1

\* C16, one step of CleanTask: the removal of a visited step's container is
\* attempted exactly when its status is not Skipped, and RunTask's result
\* stays what it was.
C16_CleanStepRule ==
    lpc = "clean" =>
        /\ \A x \in cleanPending \ cleanPending' :
               x \in rmAttempts' <=> lstatus[x] # "Skipped"
        /\ rmAttempts' \ rmAttempts \subseteq cleanPending \ cleanPending'
        /\ lret' = lret

\* C16, the whole of CleanTask: it always goes on, whatever failed, and at
\* its end every step was visited, the deletion of exactly the networks
\* without SkipCreation was attempted and the process manager is stopped.
C16_CleanRuns ==
    /\ lpc = "clean" => ENABLED (CleanStep \/ CleanNetworks)
    /\ lpc = "cleaned" =>
           /\ cleanPending = {}
           /\ rmAttempts \subseteq LSteps
           /\ netDelAttempts =
                  {ltask.networks[i].name : i \in
                      {j \in 1..Len(ltask.networks) :
                          ~ltask.networks[j].skipCreation}}
           /\ stopped

\* C16: CleanTask attempts the removal of every step that is not Skipped
\* and of no Skipped one, the deletion of every network without
\* SkipCreation and of no other, then stops the process manager; no failure
\* stops it and it returns no error.
C16_CleanTask == [][C16_CleanStepRule]_vars /\ []C16_CleanRuns

\* C16 (witness): CleanTask ended after a removal and a deletion failed,
\* with a Skipped step left alone.
C16_Witness ==
    /\ lpc = "cleaned"
    /\ \E x \in LSteps : lstatus[x] = "Skipped" /\ x \notin rmAttempts
    /\ failedOps \cap rmAttempts # {}
    /\ failedOps \cap netDelAttempts # {}

\* C17: after a RunTask that got to the execution of the steps and a
\* CleanTask in which nothing failed, no network and no volume that the
\* RunTask call created exists.
C17_CreatedAreDeleted ==
    (/\ lpc = "cleaned"
     /\ lret \in {"nil", "step", "ctx", "digest"}
     /\ failedOps = {}) =>
        /\ createdNets \cap netExists = {}
        /\ createdVols \cap volExists = {}

\* The lookups getPopulateDigests is to make for the entries of step x,
\* with the source `base` for the base images.
RECURSIVE ExpectedLookups(_, _, _)
ExpectedLookups(entries, x, base) ==
    IF entries = <<>> THEN <<>>
    ELSE LET entry == Head(entries)
         IN <<[step |-> x, at |-> Lookup(entry.image, "Image", "local")],
              [step |-> x, at |-> Lookup(entry.runtime, "Runtime", base)]>>
                \o [i \in 1..Len(entry.buildtime) |->
                      [step |-> x,
                       at |-> Lookup(entry.buildtime[i], "Buildtime", base)]]
                \o ExpectedLookups(Tail(entries), x, base)

\* The lookups of the digest pass over the steps q, in order; remote: the
\* steps whose base images are looked up in the remote registry.
RECURSIVE ExpectedPass(_, _)
ExpectedPass(q, remote) ==
    IF q = <<>> THEN <<>>
    ELSE ExpectedLookups(ldeps[Head(q)], Head(q),
                         IF Head(q) \in remote THEN "remote" ELSE "local")
             \o ExpectedPass(Tail(q), remote)

IsPrefix(p, q) == Len(p) <= Len(q) /\ SubSeq(q, 1, Len(p)) = p

\* The digest pass makes the lookups of ExpectedPass, in order, up to the
\* first that fails; a failure is returned by RunTask with nothing reported.
DigestRule(remote) ==
    lpc # "idle" =>
        /\ IsPrefix(lookups, ExpectedPass(ltask.steps, remote))
        /\ lret = "nil" =>
               /\ lookups = ExpectedPass(ltask.steps, remote)
               /\ reported <=> lookups # <<>>
        /\ lookupFailed <=> lret = "digest"
        /\ lookupFailed => ~reported /\ lpc # "digest"

\* C18 (as stated): the Image of every entry is looked up in the local
\* store, the Runtime and every Buildtime in the remote registry when the
\* step was built through the build-cache or buildkit path and in the local
\* store otherwise; the first lookup error is returned, with no later lookup
\* and no report.
C18_DigestSources ==
    DigestRule(IF lpc = "idle" THEN {}
               ELSE ltask.useCache \cup ltask.usesBuildkit)

\* C18 (amended): as stated, with the remote registry used for the base
\* images when the step uses the build cache and the OS is Linux, or the
\* step has UsesBuildkit.
C18_DigestSourcesLinux ==
    DigestRule(IF lpc = "idle" THEN {}
               ELSE {x \in ltask.useCache : goos = "linux"}
                        \cup ltask.usesBuildkit)

\* C18 (witness): on Windows the digest pass of a step built with the build
\* cache ended, its lookups made and reported.
C18_Witness ==
    /\ goos = "windows"
    /\ ltask = CacheTask
    /\ lret = "nil"
    /\ Len(lookups) = 3
    /\ reported

\* The pre-execution operations of task t, in the order of RunTask, the
\* buildkitd initialization left out.
RECURSIVE PreOps(_, _, _)
PreOps(kind, q, skip) ==
    IF q = <<>> THEN <<>>
    ELSE (IF skip /\ Head(q).skipCreation THEN <<>>
          ELSE <<Done(kind, Head(q).name)>>)
             \o PreOps(kind, Tail(q), skip)

ExpectedPre(t) ==
    PreOps("network", t.networks, TRUE)
        \o <<Done("config", "")>>
        \o (IF t.creds THEN <<Done("login", "")>> ELSE <<>>)
        \o PreOps("volume", t.volumes, FALSE)

\* The operations of q that are not the buildkitd initialization.
RECURSIVE NoBuildkitd(_)
NoBuildkitd(q) ==
    IF q = <<>> THEN <<>>
    ELSE (IF Head(q).op = "buildkitd" THEN <<>> ELSE <<Head(q)>>)
             \o NoBuildkitd(Tail(q))

PreErrors == {"network", "config", "login", "volume"}

\* RunTask of the current call has come to the spawning of the workers.
StepsReached ==
    \/ lpc \in {"steps", "digest"}
    \/ lret \in {"nil", "step", "ctx", "digest"}

\* C25: when RunTask comes to spawn the step workers, the networks without
\* SkipCreation were created in declaration order, then the configuration
\* set up, then the registry logged in to (a task with credentials), then
\* every volume prepared, each with success; a step has another status than
\* Skipped only then; and when RunTask returned the error of a network
\* creation, the configuration, a login or a volume, the operations before
\* it succeeded, no later one was made and every step is Skipped, without
\* dependencies and without digest lookups.
C25_PreExecutionFirst ==
    lpc # "idle" =>
        /\ StepsReached => NoBuildkitd(preDone) = ExpectedPre(ltask)
        /\ (\E x \in LSteps : lstatus[x] # "Skipped" \/ ldeps[x] # <<>>) =>
               StepsReached
        /\ lret \in PreErrors =>
               /\ IsPrefix(NoBuildkitd(preDone), ExpectedPre(ltask))
               /\ NoBuildkitd(preDone) # ExpectedPre(ltask)
               /\ ExpectedPre(ltask)[Len(NoBuildkitd(preDone)) + 1].op = lret
               /\ \A x \in LSteps : lstatus[x] = "Skipped" /\ ldeps[x] = <<>>
               /\ lookups = <<>>
        /\ (lpc = "returned" /\ ~StepsReached) => lret \in PreErrors

\* C25 (witness): a task with two networks and two volumes came to run its
\* steps, and one of them ended.
C25_Witness ==
    /\ ltask = BuildkitTask
    /\ Len(preDone) = 5
    /\ lret = "step"
    /\ \E x \in LSteps : lstatus[x] = "Failed"

\* C26: a failed buildkitd initialization does not make RunTask return: the
\* step of the initialization leaves RunTask at the volumes with nothing
\* returned, whatever its outcome, and no value RunTask returns is the
\* error of the initialization.
C26_InitStep ==
    lpc = "buildkitd" => lpc' = "volumes" /\ lret' = "none"

C26_InitFailureGoesOn ==
    /\ lpc = "volumes" => ENABLED PrepareVolumes
    /\ lpc = "returned" =>
           lret \in PreErrors \cup {"nil", "step", "ctx", "digest"}

C26_BuildkitdFailureLogged ==
    [][C26_InitStep]_vars /\ []C26_InitFailureGoesOn

\* C26 (witness): the buildkitd initialization failed, the volume was
\* prepared, the step ran and RunTask returned nil.
C26_Witness ==
    /\ ltask = PlainTask
    /\ preDone = <<Done("config", ""), Done("buildkitd", "failed"),
                   Done("volume", "v2")>>
    /\ lstatus["s1"] = "Successful"
    /\ lret = "nil"

\* ================================================================ loader
\* The DAG of a loaded task, as TestDagCreation_ValidFile expects it of
\* testdata/rally.yaml. A step of the document is its ID, its When list and
\* its Timeout (0: none given).
ImmediateExecutionToken == "-"

defaultStepTimeoutInSeconds == 600

DocStep(id, when, timeout) == [id |-> id, when |-> when, timeout |-> timeout]

\* When: []string{ImmediateExecutionToken}
ShouldExecuteImmediately(s) == s.when = <<ImmediateExecutionToken>>

\* A step declared without when.
HasNoWhen(s) == s.when = <<>>

\* The step the loader leaves in the task without the default timeout.
LoadedStepAsGiven(s) ==
    [id |-> s.id, when |-> s.when, timeout |-> s.timeout,
     status |-> "Skipped"]

\* The step the loader leaves in the task: StepStatus Skipped, and the
\* default timeout when the document gives none.
LoadedStep(s) ==
    [id |-> s.id, when |-> s.when,
     timeout |-> IF s.timeout = 0 THEN defaultStepTimeoutInSeconds
                 ELSE s.timeout,
     status |-> "Skipped"]

IDs(steps) == {steps[i].id : i \in 1..Len(steps)}

StepWithID(steps, id) ==
    steps[CHOOSE i \in 1..Len(steps) : steps[i].id = id]

\* The parent of every step without when, were it the root.
NoWhenParentRoot(steps, i) == Root

\* The parent of the i-th step when it has no when: the root for the first
\* step, the step declared before it for any other.
NoWhenParent(steps, i) == IF i = 1 THEN Root ELSE steps[i - 1].id

ImmediateEdges(steps) ==
    {<<Root, steps[i].id>> :
        i \in {j \in 1..Len(steps) : ShouldExecuteImmediately(steps[j])}}

NoWhenEdges(steps) ==
    {<<NoWhenParent(steps, i), steps[i].id>> :
        i \in {j \in 1..Len(steps) : HasNoWhen(steps[j])}}

\* An edge D -> S for every ID D of the when list of S.
WhenEdges(steps) ==
    UNION {{<<steps[i].when[k], steps[i].id>> :
               k \in {l \in 1..Len(steps[i].when) :
                        steps[i].when[l] # ImmediateExecutionToken}} :
           i \in 1..Len(steps)}

DagEdges(steps) ==
    ImmediateEdges(steps) \cup NoWhenEdges(steps) \cup WhenEdges(steps)

\* The nodes reachable from the set S along the edges E.
RECURSIVE ReachFrom(_, _)
ReachFrom(E, S) ==
    LET T == S \cup {e[2] : e \in {f \in E : f[1] \in S}}
    IN IF T = S THEN S ELSE ReachFrom(E, T)

Cyclic(E) == \E e \in E : e[1] \in ReachFrom(E, {e[2]})

\* The load errors of the DAG construction: an ID of a when list that names
\* no step, a cycle.
LoadError(steps) ==
    IF \E e \in WhenEdges(steps) : e[1] \notin IDs(steps)
    THEN "UnknownDependency"
    ELSE IF Cyclic(DagEdges(steps)) THEN "CyclicDependency"
    ELSE "none"

\* ---------------------------------------------------------- loader: inputs
\* testdata/rally.yaml, as the test reads it back.
RallyDoc ==
    <<DocStep("puller", <<>>, 0),
      DocStep("build-qux", <<ImmediateExecutionToken>>, 0),
      DocStep("C", <<ImmediateExecutionToken>>, 0),
      DocStep("build-bar", <<ImmediateExecutionToken>>, 0),
      DocStep("B", <<"C">>, 0),
      DocStep("build-foo", <<"build-qux">>, 0),
      DocStep("build-qaz", <<>>, 0)>>

\* Most steps of a generated document.
MaxSteps == 3

StepNames == <<"a", "b", "c", "d", "e", "f">>

\* The IDs a when list may name: the steps' and one that names no step.
DepIDs(n) == {StepNames[i] : i \in 1..n} \cup {"zz"}

Whens(n) ==
    {<<>>, <<ImmediateExecutionToken>>}
        \cup {<<d>> : d \in DepIDs(n)}
        \cup {<<StepNames[i], StepNames[i + 1]>> : i \in 1..(n - 1)}

Docs ==
    {RallyDoc} \cup
    UNION {{[i \in 1..n |-> DocStep(StepNames[i], w[i], t)] :
               w \in [1..n -> Whens(n)], t \in {0, 30}} :
           n \in 1..MaxSteps}

InitLoad ==
    /\ DagIdle
    /\ UtilIdle
    /\ StepIdle
    /\ LifeIdle
    /\ doc \in Docs
    /\ loaded = FALSE
    /\ NoDag
    /\ loadErr = "none"

\* The load of a document whose DAG can be built.
LoadTask ==
    /\ ~loaded
    /\ LoadError(doc) = "none"
    /\ loaded' = TRUE
    /\ nodes' = [id \in IDs(doc) |-> LoadedStep(StepWithID(doc, id))]
    /\ edges' = DagEdges(doc)
    /\ UNCHANGED <<doc, loadErr>>
    /\ UNCHANGED <<dagVars, utilVars, stepVars, lifeVars>>

\* The load of a document with a missing ID or a cycle: a fatal load error.
LoadFails ==
    /\ ~loaded
    /\ LoadError(doc) # "none"
    /\ loaded' = TRUE
    /\ loadErr' = LoadError(doc)
    /\ UNCHANGED <<doc, nodes, edges>>
    /\ UNCHANGED <<dagVars, utilVars, stepVars, lifeVars>>

NextLoad == LoadTask \/ LoadFails

SpecLoad == InitLoad /\ [][NextLoad]_vars

\* ---------------------------------------------------------- loader: claims
Loaded == loaded /\ loadErr = "none"

\* Node.Children() of the loaded DAG.
DagChildren(n) == {e[2] : e \in {f \in edges : f[1] = n}}

DagParents(n) == {e[1] : e \in {f \in edges : f[2] = n}}

\* C21 (as stated): in a loaded task every step whose When list is empty is
\* a child of the root, whatever its position, as is every step with
\* When = [ImmediateExecutionToken].
C21_EmptyWhenIsRootChild ==
    Loaded =>
        \A i \in 1..Len(doc) :
            (HasNoWhen(doc[i]) \/ ShouldExecuteImmediately(doc[i])) =>
                doc[i].id \in DagChildren(Root)

\* C21 (amended): a step with When = [ImmediateExecutionToken] is a child of
\* the root (only); a step whose When list is empty is a child of the root
\* (only) when it is the first step of the list, and otherwise a child of
\* the step declared immediately before it and not of the root.
C21_EmptyWhenFollowsPrevious ==
    Loaded =>
        \A i \in 1..Len(doc) :
            /\ ShouldExecuteImmediately(doc[i]) =>
                   DagParents(doc[i].id) = {Root}
            /\ (HasNoWhen(doc[i]) /\ i = 1) =>
                   DagParents(doc[i].id) = {Root}
            /\ (HasNoWhen(doc[i]) /\ i > 1) =>
                   DagParents(doc[i].id) = {doc[i - 1].id}

\* C21 (witness): a loaded task of three steps, none with a when list: the
\* second and third are not children of the root.
C21_Witness ==
    /\ Loaded
    /\ Len(doc) = 3
    /\ \A i \in 1..3 : HasNoWhen(doc[i])
    /\ DagChildren(Root) = {doc[1].id}
    /\ DagChildren(doc[2].id) = {doc[3].id}

\* The edge p -> c that the rule gives for the steps of the document.
RuleEdge(p, c) ==
    \E i \in 1..Len(doc) :
        /\ doc[i].id = c
        /\ \/ p = Root /\ ShouldExecuteImmediately(doc[i])
           \/ p = Root /\ HasNoWhen(doc[i]) /\ i = 1
           \/ \E k \in 1..Len(doc[i].when) :
                  p = doc[i].when[k] /\ p # ImmediateExecutionToken
           \/ HasNoWhen(doc[i]) /\ i > 1 /\ p = doc[i - 1].id

\* C22: the DAG of a loaded task has exactly the edges Root -> S for a step
\* S with when ["-"] and for a first step without when, D -> S for every ID D
\* of the when list of S, and P -> S for a later step S without when and the
\* step P declared before it (in rally.yaml build-qaz is the only child of
\* build-foo and no child of the root); every node's value is the step as
\* loaded, with status Skipped and the default timeout.
C22_DagEdges ==
    Loaded =>
        /\ edges = {e \in (IDs(doc) \cup {Root}) \X IDs(doc) :
                       RuleEdge(e[1], e[2])}
        /\ DOMAIN nodes = IDs(doc)
        /\ \A i \in 1..Len(doc) :
               LET v == nodes[doc[i].id] IN
                 /\ v.id = doc[i].id
                 /\ v.when = doc[i].when
                 /\ v.status = "Skipped"
                 /\ doc[i].timeout = 0 =>
                        v.timeout = defaultStepTimeoutInSeconds
                 /\ doc[i].timeout # 0 => v.timeout = doc[i].timeout
        /\ doc = RallyDoc =>
               /\ DagChildren("build-foo") = {"build-qaz"}
               /\ "build-qaz" \notin DagChildren(Root)
               /\ DagChildren(Root) =
                      {"puller", "C", "build-qux", "build-bar"}
               /\ DagChildren("C") = {"B"}
               /\ DagChildren("build-qux") = {"build-foo"}
               /\ \A n \in {"puller", "B", "build-bar", "build-qaz"} :
                      DagChildren(n) = {}

\* C22 (witness): rally.yaml is loaded, its seven steps the nodes of the DAG
\* and build-qaz a child of build-foo.
C22_Witness ==
    /\ doc = RallyDoc
    /\ Loaded
    /\ Cardinality(DOMAIN nodes) = 7
    /\ <<"build-foo", "build-qaz">> \in edges

\* ====================================================== executor, again
\* C23: every step is executed at most once per task run and by a single
\* worker: however the workers of a node's parents interleave RemoveEdge
\* and the degree read, at most one of them goes on to run the step.
C23_StepRunsAtMostOnce ==
    \A s \in Steps :
        /\ runs[s] <= 1
        /\ Cardinality({w \in workers :
                           w.child = s /\ w.pc \in {"run", "exec", "after"}})
               <= 1

\* A worker is running step s, or is about to set its terminal status.
Unfinished(s) == \E w \in workers : w.child = s /\ InRunStep(w)

Ancestors(s) == ReachFrom({<<c, p>> \in Steps \X Steps : p \in task.when[c]},
                          {s}) \ {s}

\* C24, in every step: when a step begins execution all its parents have
\* status Successful (they succeeded or failed under IgnoreErrors) and none
\* is still running; a worker for a child of a node is spawned only by the
\* worker of that node, after its runStep returned nil or the step has
\* IgnoreErrors.
C24_BeginsAfterParents ==
    /\ \A s \in Steps :
           runs'[s] > runs[s] =>
               \A p \in task.when[s] \ {Root} :
                   status[p] = "Successful" /\ ~Unfinished(p)
    /\ \A v \in workers' \ workers :
           (v.pc = "remove" /\ v.parent # Root) =>
               \E w \in workers :
                   /\ w.child = v.parent
                   /\ w.pc = "after"
                   /\ ~w.err \/ v.parent \in task.ignore

\* C24, in every state: every descendant of a step with status Failed has
\* status Skipped and was never run.
C24_DescendantsSkipped ==
    \A s \in Steps : \A p \in Ancestors(s) :
        status[p] = "Failed" => status[s] = "Skipped" /\ runs[s] = 0

\* C24: a step never begins execution while a parent is unfinished or has
\* failed without IgnoreErrors, and the descendants of a step that failed
\* without IgnoreErrors stay Skipped for the rest of the run.
C24_NoRunAfterFailedParent ==
    [][C24_BeginsAfterParents]_vars /\ []C24_DescendantsSkipped

\* C27: the digest pass starts only when the barrier has received the
\* completion signal of every step, with every step ended (a terminal
\* status, no worker about to run it, running it or about to set its
\* status); and a RunTask that returned a step error or the context error
\* returned from the barrier, before its last receive, so that it made no
\* digest lookup.
C27_DigestAfterBarrier ==
    /\ mpc = "digest" =>
           \A s \in Steps :
               /\ recvd[s] >= 1
               /\ status[s] \in Terminal
               /\ ~\E w \in workers :
                      w.child = s /\ w.pc \in {"run", "exec", "after"}
    /\ (Returned /\ ret.kind \in {"step", "ctx"}) =>
           bidx <= Len(completedChans)
    /\ (Returned /\ ret.kind \in {"nil", "digest"}) =>
           bidx = Len(completedChans) + 1

====
